---- MODULE Spec2Model ----
(***************************************************************************)
(* Model of action_update_release.py: Updater.__call__ and the helpers it  *)
(* drives (check_if_release_exists, get_provided_files, delete_asset,      *)
(* upload_asset).  The remote API is the environment: every HTTP request   *)
(* receives a status drawn from Statuses.  The file system is a small      *)
(* fixed tree; paths are sequences of components.                          *)
(***************************************************************************)
EXTENDS Integers, Sequences, FiniteSets, TLC

\* ---------------------------------------------------------------- bounds
MaxPaths == 3
MaxAssets == 2

\* ----------------------------------------------------------- environment
\* Regular files of the file system.
FsFiles == { <<"a.zip">>, <<"d", "a.zip">>, <<"d", "b.zip">>, <<"d", "sub", "c.zip">> }
\* Directories of the file system.
FsDirs == { <<"d">>, <<"d", "sub">> }
\* Values a --files entry may take (the last one exists nowhere).
ArgPaths == { <<"a.zip">>, <<"d">>, <<"nope">> }
\* Asset names the remote release may hold.
AssetNames == { "a.zip", "b.zip" }
AssetIds == 1..MaxAssets
\* Status codes the remote API may answer with.
Statuses == { 200, 201, 204, 401, 404, 500 }

\* ------------------------------------------------------------ pathlib
\* Path.name: the final component.
Name(path) == path[Len(path)]
is_file(path) == path \in FsFiles
is_dir(path) == path \in FsDirs
\* The entries directly inside a directory (files and subdirectories).
Children(dir) == { p \in FsFiles \cup FsDirs :
                     /\ Len(p) = Len(dir) + 1
                     /\ SubSeq(p, 1, Len(dir)) = dir }

RECURSIVE SeqsOf(_)
\* All orderings of a finite set, as sequences without repetition.
SeqsOf(S) == IF S = {} THEN { <<>> }
             ELSE UNION { { <<x>> \o s : s \in SeqsOf(S \ {x}) } : x \in S }
\* Path.iterdir yields the children in arbitrary order: one order per directory.
Listings == [ FsDirs -> UNION { SeqsOf(Children(d)) : d \in FsDirs } ]
ValidListing(l) == \A d \in FsDirs : l[d] \in SeqsOf(Children(d))

\* ------------------------------------------------------------ dict
\* A dict is a sequence of [name, path] entries in insertion order.
HasKey(d, k) == \E i \in 1..Len(d) : d[i].name = k
KeyIndex(d, k) == CHOOSE i \in 1..Len(d) : d[i].name = k
Keys(d) == { d[i].name : i \in 1..Len(d) }
\* First-write-wins variant of the assignment.
DictSetKeepFirst(d, k, v) ==
    IF HasKey(d, k) THEN d ELSE Append(d, [name |-> k, path |-> v])
\* loaded_files[k] = v : overwrite in place, or append a new key.
DictSet(d, k, v) ==
    IF HasKey(d, k) THEN [d EXCEPT ![KeyIndex(d, k)].path = v]
    ELSE Append(d, [name |-> k, path |-> v])

RECURSIVE AddDirFiles(_, _)
\* for file in path.iterdir(): if file.is_file(): loaded_files[file.name] = file
AddDirFiles(d, entries) ==
    IF entries = <<>> THEN d
    ELSE AddDirFiles(IF is_file(Head(entries))
                       THEN DictSet(d, Name(Head(entries)), Head(entries))
                       ELSE d,
                     Tail(entries))

RECURSIVE LoadFilesAbortOnMissing(_, _, _)
\* Variant of the resolver that stops at the first path that does not exist.
LoadFilesAbortOnMissing(d, paths, order) ==
    IF paths = <<>> THEN d
    ELSE IF is_file(Head(paths))
      THEN LoadFilesAbortOnMissing(DictSet(d, Name(Head(paths)), Head(paths)), Tail(paths), order)
    ELSE IF is_dir(Head(paths))
      THEN LoadFilesAbortOnMissing(AddDirFiles(d, order[Head(paths)]), Tail(paths), order)
    ELSE d

RECURSIVE LoadFiles(_, _, _)
\* The body of the loop over self.files in get_provided_files.
LoadFiles(d, paths, order) ==
    IF paths = <<>> THEN d
    ELSE IF is_file(Head(paths))
      THEN LoadFiles(DictSet(d, Name(Head(paths)), Head(paths)), Tail(paths), order)
    ELSE IF is_dir(Head(paths))
      THEN LoadFiles(AddDirFiles(d, order[Head(paths)]), Tail(paths), order)
    ELSE LoadFiles(d, Tail(paths), order)

get_provided_files(paths, order) == LoadFiles(<<>>, paths, order)

\* ------------------------------------------------------------ requests
\* Response.raise_for_status raises HTTPError for 4xx and 5xx only.
raise_for_status(status) == status >= 400 /\ status < 600

\* Variant that lets an empty release record through.
check_release_truthy_any(empty) == TRUE
\* `if release := ...`: an empty dict is falsy.
check_release_truthy(empty) == ~empty

\* Outcome of the match statement of check_if_release_exists.
check_if_release_exists(status) ==
    IF status = 404 THEN "exit1"
    ELSE IF status = 401 THEN "exit1"
    ELSE IF status = 200 THEN "return"
    ELSE IF raise_for_status(status) THEN "HTTPError" ELSE "exit1"

\* Variant of delete_asset that returns normally on 401.
delete_asset_ignore_401(status) ==
    IF status = 204 THEN "return"
    ELSE IF status = 401 THEN "return"
    ELSE IF raise_for_status(status) THEN "HTTPError" ELSE "exit1"
\* Outcome of the match statement of delete_asset.
delete_asset(status) ==
    IF status = 204 THEN "return"
    ELSE IF status = 401 THEN "exit1"
    ELSE IF raise_for_status(status) THEN "HTTPError" ELSE "exit1"

\* Variant of upload_asset that swallows every status but 401.
upload_asset_swallow(exists, status) ==
    IF ~exists THEN "FileNotFoundError"
    ELSE IF status = 200 THEN "return"
    ELSE IF status = 401 THEN "exit1"
    ELSE "return"
\* Outcome of upload_asset: the existence test, then the match statement.
upload_asset(exists, status) ==
    IF ~exists THEN "FileNotFoundError"
    ELSE IF status = 200 THEN "return"
    ELSE IF status = 401 THEN "exit1"
    ELSE IF raise_for_status(status) THEN "HTTPError" ELSE "exit1"

\* ------------------------------------------------------------ asset scan
\* Variant of the comparison that accepts every asset.
NameMatchesAny(asset, file_name) == TRUE
\* asset["name"] == file_name
NameMatches(asset, file_name) == asset.name = file_name

Matches(assets, file_name) == { j \in 1..Len(assets) : NameMatches(assets[j], file_name) }
Max(S) == CHOOSE x \in S : \A y \in S : y <= x
Min(S) == CHOOSE x \in S : \A y \in S : x <= y
\* Variant that picks the last asset of that name.
LastMatch(assets, file_name) ==
    IF Matches(assets, file_name) = {} THEN 0 ELSE Max(Matches(assets, file_name))
\* for asset in existing_assets: if ...: ...; break  -- index of the first hit, 0 if none.
FirstMatch(assets, file_name) ==
    IF Matches(assets, file_name) = {} THEN 0 ELSE Min(Matches(assets, file_name))

\* ------------------------------------------------------------ state
VARIABLES
    args_files,       \* self.files
    listing,          \* iterdir order of each directory
    server_assets,    \* "assets" of the release held by the remote API
    record_empty,     \* the release record the API returns is the empty dict
    existing_assets,  \* existing_assets in __call__
    loaded_files,     \* files in __call__
    idx,              \* position of the outer loop in files.items(), 0 before files is built
    asset_idx,        \* index of the asset matched for the current file, 0 if none
    toggle,           \* toggle in __call__
    pc,               \* next step of __call__
    outcome,          \* "running", "exit0", "exit1", "HTTPError", "FileNotFoundError"
    calls             \* HTTP requests issued so far, with the status received

vars == << args_files, listing, server_assets, record_empty, existing_assets, loaded_files,
           idx, asset_idx, toggle, pc, outcome, calls >>

RECURSIVE SeqsUpTo(_, _)
SeqsUpTo(S, n) == IF n = 0 THEN { <<>> }
                  ELSE LET shorter == SeqsUpTo(S, n - 1)
                       IN shorter \cup { Append(s, x) : s \in { t \in shorter : Len(t) = n - 1 }, x \in S }

AssetRecs == [ id : AssetIds, name : AssetNames ]
\* Asset lists of the remote API: ids are unique, names need not be.
AssetLists == { s \in SeqsUpTo(AssetRecs, MaxAssets) :
                  \A i, j \in 1..Len(s) : i # j => s[i].id # s[j].id }
\* argparse nargs="+": at least one path.
PathLists == { s \in SeqsUpTo(ArgPaths, MaxPaths) : Len(s) >= 1 }

Call(op, id, name, status) == [ op |-> op, id |-> id, name |-> name, status |-> status ]

Init ==
    /\ args_files \in PathLists
    /\ listing \in { l \in Listings : ValidListing(l) }
    /\ server_assets \in AssetLists
    /\ record_empty \in BOOLEAN
    /\ record_empty => server_assets = <<>>
    /\ existing_assets = <<>>
    /\ loaded_files = <<>>
    /\ idx = 0
    /\ asset_idx = 0
    /\ toggle = TRUE
    /\ pc = "fetch"
    /\ outcome = "running"
    /\ calls = <<>>

Stop(result) == /\ pc' = "done"
                /\ outcome' = result

\* __call__ line 195-200: check_if_release_exists and the truthiness test.
Fetch ==
    /\ pc = "fetch"
    /\ \E status \in Statuses :
         LET r == check_if_release_exists(status) IN
         /\ calls' = Append(calls, Call("GET", 0, "", status))
         /\ IF r = "return" /\ check_release_truthy(record_empty)
              THEN /\ existing_assets' = server_assets
                   /\ pc' = "resolve"
                   /\ outcome' = outcome
              ELSE /\ Stop(IF r = "return" THEN "exit1" ELSE r)
                   /\ existing_assets' = existing_assets
    /\ UNCHANGED << args_files, listing, server_assets, record_empty, loaded_files, idx, asset_idx, toggle >>

\* __call__ line 202-203.
Resolve ==
    /\ pc = "resolve"
    /\ loaded_files' = get_provided_files(args_files, listing)
    /\ toggle' = TRUE
    /\ idx' = 1
    /\ pc' = "scan"
    /\ UNCHANGED << args_files, listing, server_assets, record_empty, existing_assets, asset_idx, outcome, calls >>

\* __call__ line 204-206 and 211: take the next file and scan the assets for it.
ScanAssets ==
    /\ pc = "scan"
    /\ idx <= Len(loaded_files)
    /\ LET m == FirstMatch(existing_assets, loaded_files[idx].name) IN
         IF m > 0
           THEN /\ asset_idx' = m
                /\ pc' = "delete"
                /\ idx' = idx
           ELSE /\ asset_idx' = 0
                /\ IF toggle
                     THEN pc' = "upload" /\ idx' = idx
                     ELSE pc' = "scan" /\ idx' = idx + 1
    /\ UNCHANGED << args_files, listing, server_assets, record_empty, existing_assets, loaded_files,
                    toggle, outcome, calls >>

\* __call__ line 207: self.delete_asset(asset["id"]).
DeleteAsset ==
    /\ pc = "delete"
    /\ \E status \in Statuses :
         LET r == delete_asset(status) IN
         /\ calls' = Append(calls, Call("DELETE", existing_assets[asset_idx].id,
                                        loaded_files[idx].name, status))
         /\ IF r = "return"
              THEN pc' = "upload" /\ outcome' = outcome
              ELSE Stop(r)
    /\ UNCHANGED << args_files, listing, server_assets, record_empty, existing_assets, loaded_files,
                    idx, asset_idx, toggle >>

\* toggle = False after a replaced asset; it is not set back for later files.
ToggleAfterMatch == FALSE

\* __call__ line 208-210 (asset_idx > 0) and line 211-212 (asset_idx = 0).
UploadAsset ==
    /\ pc = "upload"
    /\ \E exists \in BOOLEAN, status \in Statuses :
         LET r == upload_asset(exists, status) IN
         /\ calls' = IF exists
                       THEN Append(calls, Call("POST", 0, loaded_files[idx].name, status))
                       ELSE calls
         /\ IF r = "return"
              THEN /\ outcome' = outcome
                   /\ asset_idx' = 0
                   /\ IF asset_idx > 0
                        THEN /\ toggle' = ToggleAfterMatch
                             /\ IF toggle'
                                  THEN pc' = "upload" /\ idx' = idx
                                  ELSE pc' = "scan" /\ idx' = idx + 1
                        ELSE /\ toggle' = toggle
                             /\ pc' = "scan"
                             /\ idx' = idx + 1
              ELSE /\ Stop(r)
                   /\ UNCHANGED << idx, asset_idx, toggle >>
    /\ UNCHANGED << args_files, listing, server_assets, record_empty, existing_assets, loaded_files >>

\* __call__ returns after the last file; main returns and the process exits with 0.
Return ==
    /\ pc = "scan"
    /\ idx > Len(loaded_files)
    /\ Stop("exit0")
    /\ UNCHANGED << args_files, listing, server_assets, record_empty, existing_assets, loaded_files,
                    idx, asset_idx, toggle, calls >>

Next == Fetch \/ Resolve \/ ScanAssets \/ DeleteAsset \/ UploadAsset \/ Return

Spec == Init /\ [][Next]_vars

\* ------------------------------------------------------------ observations
Resolved == idx >= 1
CallsOf(op, name) == { c \in 1..Len(calls) : calls[c].op = op /\ calls[c].name = name }
\* Assets of the fetched release that carry a given name (plain equality).
AssetsNamed(n) == { j \in 1..Len(existing_assets) : existing_assets[j].name = n }
Succeeded(c) == \/ calls[c].op = "GET" /\ calls[c].status = 200
                \/ calls[c].op = "DELETE" /\ calls[c].status = 204
                \/ calls[c].op = "POST" /\ calls[c].status = 200
Missing(path) == ~is_file(path) /\ ~is_dir(path)
Present(path) == ~Missing(path)

RECURSIVE Sources(_, _)
\* The files the resolver meets, in the order it meets them.
Sources(paths, order) ==
    IF paths = <<>> THEN <<>>
    ELSE (IF is_file(Head(paths)) THEN << Head(paths) >>
          ELSE IF is_dir(Head(paths)) THEN SelectSeq(order[Head(paths)], is_file)
          ELSE <<>>) \o Sources(Tail(paths), order)

\* ------------------------------------------------------------ claims

\* C1: every resolved file whose name equals no asset name, once the loop has
\* moved past it (so every earlier call succeeded), has received exactly one
\* upload call and no delete call, whatever files were processed before it.
C1_UnmatchedFileUploadedOnce ==
    \A i \in 1..Len(loaded_files) :
      (idx > i /\ AssetsNamed(loaded_files[i].name) = {})
        => /\ Cardinality(CallsOf("POST", loaded_files[i].name)) = 1
           /\ Cardinality(CallsOf("DELETE", loaded_files[i].name)) = 0

\* C2: for a resolved file whose name is carried by at least one asset, the
\* only delete call is for the id of the first asset of that name, the only
\* upload call comes right after that delete returned 204, and once the loop
\* has moved past the file there is exactly one of each.
C2_MatchedFileDeleteThenUpload ==
    \A i \in 1..Len(loaded_files) :
      LET n == loaded_files[i].name
          M == AssetsNamed(n)
          D == CallsOf("DELETE", n)
          U == CallsOf("POST", n)
      IN M # {} =>
           /\ \A c \in D : calls[c].id = existing_assets[Min(M)].id
           /\ Cardinality(D) <= 1
           /\ Cardinality(U) <= 1
           /\ \A c \in U : c - 1 \in D /\ calls[c - 1].status = 204
           /\ idx > i => Cardinality(D) = 1 /\ Cardinality(U) = 1

\* C2 witness: a file replaced an asset whose name occurs twice in the list.
C2_Witness ==
    /\ outcome = "exit0"
    /\ \E i \in 1..Len(loaded_files) :
         /\ Cardinality(AssetsNamed(loaded_files[i].name)) >= 2
         /\ CallsOf("DELETE", loaded_files[i].name) # {}
         /\ CallsOf("POST", loaded_files[i].name) # {}

\* C3: a run ends with exit code 0 only after every resolved file has been
\* uploaded exactly once, and for assets [{id 1, a.zip}] with files a.zip then
\* b.zip the calls after the fetch are delete(1), upload(a.zip), upload(b.zip).
C3_ExitZeroAfterAllUploaded ==
    outcome = "exit0" =>
      /\ \A i \in 1..Len(loaded_files) :
           Cardinality({ c \in CallsOf("POST", loaded_files[i].name) : calls[c].status = 200 }) = 1
      /\ ( /\ existing_assets = << [id |-> 1, name |-> "a.zip"] >>
           /\ Len(loaded_files) = 2
           /\ loaded_files[1].name = "a.zip"
           /\ loaded_files[2].name = "b.zip" )
         => SubSeq(calls, 2, Len(calls)) =
              << Call("DELETE", 1, "a.zip", 204),
                 Call("POST", 0, "a.zip", 200),
                 Call("POST", 0, "b.zip", 200) >>

\* C4: when the fetch gets 404, 401, or 200 with an empty record, the process
\* exits with code 1 and the fetch is the only request of the run.
C4_FetchHardStop ==
    ( /\ Len(calls) >= 1
      /\ \/ calls[1].status \in { 404, 401 }
         \/ calls[1].status = 200 /\ record_empty )
      => /\ outcome = "exit1"
         /\ Len(calls) = 1
         /\ calls[1].op = "GET"

\* C4 witness: the fetch returned 200 with an empty record.
C4_Witness ==
    /\ Len(calls) = 1
    /\ calls[1].status = 200
    /\ record_empty
    /\ pc = "done"

\* C5: a request answered with 401 is the last request of the run and the
\* process exits with code 1.
C5_UnauthorizedIsTerminal ==
    \A c \in 1..Len(calls) :
      calls[c].status = 401 => c = Len(calls) /\ outcome = "exit1" /\ pc = "done"

\* C5 witness: an upload answered 401 right after a successful delete.
C5_Witness ==
    /\ Len(calls) >= 3
    /\ calls[Len(calls)].op = "POST"
    /\ calls[Len(calls)].status = 401
    /\ calls[Len(calls) - 1].op = "DELETE"
    /\ calls[Len(calls) - 1].status = 204

\* C6: a response status that is neither the success code nor a hard-stop
\* code of its operation ends the run with a raised request-failure error.
C6_OtherStatusRaises ==
    \A c \in 1..Len(calls) :
      ( \/ calls[c].op = "GET" /\ calls[c].status \notin { 200, 404, 401 }
        \/ calls[c].op = "POST" /\ calls[c].status \notin { 200, 401 }
        \/ calls[c].op = "DELETE" /\ calls[c].status \notin { 204, 401 } )
      => outcome = "HTTPError"

\* C7: the resolved mapping has one entry per distinct base name among the
\* files the resolver meets, and each entry holds the location of the last
\* such file of that name.
C7_LastWriteWins ==
    Resolved =>
      LET S == Sources(args_files, listing) IN
      /\ \A i, j \in 1..Len(loaded_files) :
           i # j => loaded_files[i].name # loaded_files[j].name
      /\ Keys(loaded_files) = { Name(S[k]) : k \in 1..Len(S) }
      /\ \A i \in 1..Len(loaded_files) :
           loaded_files[i].path =
             S[Max({ k \in 1..Len(S) : Name(S[k]) = loaded_files[i].name })]

\* C7 witness: two different files of the same base name were met.
C7_Witness ==
    /\ Resolved
    /\ LET S == Sources(args_files, listing) IN
       \E k1, k2 \in 1..Len(S) :
         /\ k1 < k2
         /\ Name(S[k1]) = Name(S[k2])
         /\ S[k1] # S[k2]
         /\ \E i \in 1..Len(loaded_files) : loaded_files[i].path = S[k2]

\* C8: a path that is neither a file nor a directory adds no entry and does
\* not stop the resolver: the mapping is the one the existing paths alone
\* yield, every path listed after a missing one still contributes its files,
\* and a run that exits with 0 has taken every entry through the file loop.
C8_MissingPathSkipped ==
    Resolved =>
      /\ loaded_files = get_provided_files(SelectSeq(args_files, Present), listing)
      /\ \A i \in 1..Len(loaded_files) : is_file(loaded_files[i].path)
      /\ \A i, j \in 1..Len(args_files) :
           (i < j /\ Missing(args_files[i])) =>
             /\ is_file(args_files[j]) => Name(args_files[j]) \in Keys(loaded_files)
             /\ is_dir(args_files[j]) =>
                  \A f \in Children(args_files[j]) :
                    is_file(f) => Name(f) \in Keys(loaded_files)
      /\ outcome = "exit0" => idx = Len(loaded_files) + 1

\* C8 witness: a file listed after a missing path was uploaded and the run
\* exited with 0.
C8_Witness ==
    /\ outcome = "exit0"
    /\ \E i, j \in 1..Len(args_files) :
         /\ i < j
         /\ Missing(args_files[i])
         /\ is_file(args_files[j])
         /\ CallsOf("POST", Name(args_files[j])) # {}

\* C9 (state part): a failing delete or upload is the last request and ends
\* the run; an upload for a replaced file directly follows its delete's 204;
\* a successful delete is followed by nothing but the upload for the same file.
C9_FailureStopsRun ==
    /\ \A c \in 1..Len(calls) :
         (calls[c].op \in { "DELETE", "POST" } /\ ~Succeeded(c))
           => c = Len(calls) /\ pc = "done" /\ outcome \notin { "running", "exit0" }
    /\ \A c \in 1..Len(calls) :
         (calls[c].op = "POST" /\ AssetsNamed(calls[c].name) # {})
           => /\ c > 1
              /\ calls[c - 1].op = "DELETE"
              /\ calls[c - 1].status = 204
              /\ calls[c - 1].name = calls[c].name
    /\ \A c \in 1..Len(calls) :
         (calls[c].op = "DELETE" /\ calls[c].status = 204) =>
           IF c = Len(calls)
             THEN \/ pc = "upload" /\ outcome = "running"
                  \/ pc = "done" /\ outcome = "FileNotFoundError"
             ELSE calls[c + 1].op = "POST" /\ calls[c + 1].name = calls[c].name
    /\ outcome \in { "FileNotFoundError", "HTTPError", "exit1" } => pc = "done"

\* C9: the state part always holds, and once the run has ended no request is
\* issued any more.
C9_NoRequestAfterFailure ==
    /\ []C9_FailureStopsRun
    /\ [][outcome # "running" => calls' = calls]_vars

\* C9 witness: an asset was deleted and the upload that followed failed.
C9_Witness ==
    /\ pc = "done"
    /\ outcome = "HTTPError"
    /\ Len(calls) >= 3
    /\ calls[Len(calls)].op = "POST" /\ calls[Len(calls)].status = 500
    /\ calls[Len(calls) - 1].op = "DELETE" /\ calls[Len(calls) - 1].status = 204
    /\ idx < Len(loaded_files)

\* C10: every delete call carries the id of an asset of the fetched list
\* whose name is the name of the resolved file being processed, and a
\* resolved file gets at most one delete call.
C10_DeleteOnlyMatchingAssets ==
    /\ \A c \in 1..Len(calls) :
         calls[c].op = "DELETE" =>
           \E j \in 1..Len(existing_assets) :
             /\ existing_assets[j].id = calls[c].id
             /\ existing_assets[j].name \in Keys(loaded_files)
             /\ existing_assets[j].name = calls[c].name
    /\ \A j \in 1..Len(existing_assets) :
         existing_assets[j].name \notin Keys(loaded_files) =>
           \A c \in 1..Len(calls) :
             calls[c].op = "DELETE" => calls[c].id # existing_assets[j].id
    /\ \A i \in 1..Len(loaded_files) :
         Cardinality(CallsOf("DELETE", loaded_files[i].name)) <= 1

\* C10 witness: a run finished that deleted one asset and left another one,
\* whose name no resolved file has, alone.
C10_Witness ==
    /\ outcome = "exit0"
    /\ \E c \in 1..Len(calls) : calls[c].op = "DELETE"
    /\ \E j \in 1..Len(existing_assets) : existing_assets[j].name \notin Keys(loaded_files)

====
